---- MODULE Spec2Model ----
(***************************************************************************)
(* Model of the habit tracker (src/habit_tracker.py): the Habit class with *)
(* its streak analysis, the HabitTracker with its ranking and its JSON     *)
(* persistence, and the six-day fixture of src/unit_test.py.               *)
(*                                                                         *)
(* A completion is one of the two Python values the code stores:           *)
(*   datetime.datetime  (written by complete, unit_test.py fixtures)       *)
(*   datetime.date      (written by generate_example_data and from_dict)   *)
(* Days are counted from the example data's reference date (2023-05-01 is  *)
(* day 0); the time of day is counted in ticks, TicksPerDay ticks a day    *)
(* (Python: 86400 * 10^6 microseconds).                                    *)
(***************************************************************************)
EXTENDS Integers, Sequences, FiniteSets, TLC

(* ---------------------------- bounds ----------------------------------- *)
TicksPerDay == 2        \* resolution of the time of day
MaxDay == 2             \* the clock stops advancing at the end of this day
MaxHabits == 2          \* habits in the tracker
MaxCompletions == 2     \* a habit holding this many completions records no more
ExampleDays == 2        \* range(28) of generate_example_data, scaled down
MaxDrift == 1           \* ticks the clock may advance during the fixture

(* ------------------------ program constants ---------------------------- *)
FixtureDays == 6        \* range(6) in unit_test.py
ExampleWeeks == 4       \* range(4) of generate_example_data
DaysPerWeek == 7        \* datetime.timedelta(weeks=i)
DailyThreshold == 1     \* "<= 1" in _track_daily_streaks
WeeklyThreshold == 7    \* "<= 7" in _track_weekly_streaks

\* habit names: a name of PREDEFINED_HABITS and the empty custom name
Names == {"", "Exercise"}
Periods == {"daily", "weekly", "monthly"}
None == "None"

(* ----------------------- dates and datetimes --------------------------- *)
DateTime(d, t) == [kind |-> "datetime", day |-> d, tod |-> t]
Date(d) == [kind |-> "date", day |-> d, tod |-> 0]

\* datetime.date() : only datetime objects have the method
HasDateMethod(c) == c.kind = "datetime"

\* position of a value on the time line, in ticks
Ticks(c) == c.day * TicksPerDay + c.tod

\* a day count that discards the time of day before subtracting
DeltaCalendarDays(a, b) == b.day - a.day

\* (b - a).days : timedelta.days is the floor of the elapsed time in days
DeltaDays(a, b) == (Ticks(b) - Ticks(a)) \div TicksPerDay

\* a datetime and a date are neither comparable nor subtractable
Mixed(s) == \E i, j \in 1..Len(s) : s[i].kind # s[j].kind

RECURSIVE Insert(_, _)
Insert(x, s) ==
    IF s = <<>> THEN <<x>>
    ELSE IF Ticks(x) < Ticks(Head(s)) THEN <<x>> \o s
    ELSE <<Head(s)>> \o Insert(x, Tail(s))

RECURSIVE SortAsc(_)
SortAsc(s) ==
    IF s = <<>> THEN <<>>
    ELSE Insert(s[Len(s)], SortAsc(SubSeq(s, 1, Len(s) - 1)))

\* sorted(list) / list.sort(): TypeError as soon as two values of different
\* kinds are compared, which happens for every mixed list of two or more
SortRaises(s) == Len(s) >= 2 /\ Mixed(s)

\* the longest prefix of s whose values have the kind of s[1]
RECURSIVE HomPrefixLen(_, _)
HomPrefixLen(s, k) ==
    IF k < Len(s) /\ s[k + 1].kind = s[1].kind THEN HomPrefixLen(s, k + 1) ELSE k

\* list.sort() that raises leaves the list partially modified: either
\* untouched, or with the prefix it had already ordered
FailedSort(s, partial) ==
    IF partial
    THEN LET k == HomPrefixLen(s, 1)
         IN  SortAsc(SubSeq(s, 1, k)) \o SubSeq(s, k + 1, Len(s))
    ELSE s

(* ------------------------------ state ---------------------------------- *)
\* habits.json is written by save_to_file when main exits and read by
\* load_from_file when the next run starts: SaveAndReload models the two
\* together, so the file's content needs no variable of its own.
VARIABLES habits,   \* HabitTracker.habits: sequence of [name, period, completions]
          clock,    \* what datetime.datetime.now() returns
          result    \* outcome of the last operation

vars == <<habits, clock, result>>

\* Habit.__init__
Habit(name, period) == [name |-> name, period |-> period, completions |-> <<>>]

Now == DateTime(clock.day, clock.tod)

\* what the last call did: the method, the exception it raised (None when
\* it returned) and the value it returned or reported (<<>> when none)
Outcome(op, err, val) == [op |-> op, err |-> err, val |-> val]

\* the random.choice draws of one generate_example_data call on a habit of
\* the given period: the i for which it returned True
ExamplePicks(period) ==
    SUBSET (0 .. (IF period = "daily" THEN ExampleDays
                  ELSE IF period = "weekly" THEN ExampleWeeks ELSE 0) - 1)

(* --------------------------- streak analysis --------------------------- *)
\* the scan loop of _track_daily_streaks / _track_weekly_streaks: dates is
\* the sorted list, i the loop index, current the open streak
RECURSIVE ScanStreaks(_, _, _, _, _)
ScanStreaks(dates, i, streaks, current_streak, threshold) ==
    IF i > Len(dates) THEN Append(streaks, current_streak)
    ELSE IF DeltaDays(dates[i - 1], dates[i]) <= threshold
         THEN ScanStreaks(dates, i + 1, streaks,
                          Append(current_streak, dates[i]), threshold)
         ELSE ScanStreaks(dates, i + 1, Append(streaks, current_streak),
                          <<dates[i]>>, threshold)

\* Habit._track_daily_streaks: works on a sorted copy
track_daily_streaks(h) ==
    IF h.completions = <<>>
    THEN [err |-> None, val |-> <<>>, completions |-> h.completions]
    ELSE IF SortRaises(h.completions)
    THEN [err |-> "TypeError", val |-> <<>>, completions |-> h.completions]
    ELSE LET dates == SortAsc(h.completions)
         IN  [err |-> None,
              val |-> ScanStreaks(dates, 2, <<>>, <<dates[1]>>, DailyThreshold),
              completions |-> h.completions]

\* Habit._track_weekly_streaks: sorts self.completions in place
track_weekly_streaks(h, partial) ==
    IF h.completions = <<>>
    THEN [err |-> None, val |-> <<>>, completions |-> h.completions]
    ELSE IF SortRaises(h.completions)
    THEN [err |-> "TypeError", val |-> <<>>,
          completions |-> FailedSort(h.completions, partial)]
    ELSE LET dates == SortAsc(h.completions)
         IN  [err |-> None,
              val |-> ScanStreaks(dates, 2, <<>>, <<dates[1]>>, WeeklyThreshold),
              completions |-> dates]

\* a dispatch on the period without the final raise
track_streaks_unvalidated(h, partial) ==
    IF h.period = "daily" THEN track_daily_streaks(h)
    ELSE track_weekly_streaks(h, partial)

\* Habit.track_streaks
track_streaks(h, partial) ==
    IF h.period = "daily" THEN track_daily_streaks(h)
    ELSE IF h.period = "weekly" THEN track_weekly_streaks(h, partial)
    ELSE [err |-> "ValueError", val |-> <<>>, completions |-> h.completions]

\* Habit.calculate_streak_duration
calculate_streak_duration(streak) ==
    IF streak = <<>> THEN 0
    ELSE DeltaDays(streak[1], streak[Len(streak)]) + 1

RECURSIVE SumDurations(_)
SumDurations(streaks) ==
    IF streaks = <<>> THEN 0
    ELSE calculate_streak_duration(Head(streaks)) + SumDurations(Tail(streaks))

\* an average that divides without looking at the number of streaks
calculate_average_unguarded(h, partial) ==
    LET r == track_streaks(h, partial)
    IN  IF r.err # None THEN [err |-> r.err, num |-> 0, den |-> 1]
        ELSE IF Len(r.val) = 0
        THEN [err |-> "ZeroDivisionError", num |-> 0, den |-> 1]
        ELSE [err |-> None, num |-> SumDurations(r.val), den |-> Len(r.val)]

\* Habit.calculate_average_streak_duration; the quotient is kept as the
\* fraction num/den, and the result 0 of the empty case as 0/1
calculate_average_streak_duration(h, partial) ==
    LET r == track_streaks(h, partial)
    IN  IF r.err # None THEN [err |-> r.err, num |-> 0, den |-> 1]
        ELSE IF Len(r.val) > 0
        THEN [err |-> None, num |-> SumDurations(r.val), den |-> Len(r.val)]
        ELSE [err |-> None, num |-> 0, den |-> 1]

\* max(streaks, key=..., default=[]) and min(...): the first extremal item
RECURSIVE MaxByDuration(_, _)
MaxByDuration(streaks, best) ==
    IF streaks = <<>> THEN best
    ELSE IF calculate_streak_duration(Head(streaks)) > calculate_streak_duration(best)
         THEN MaxByDuration(Tail(streaks), Head(streaks))
         ELSE MaxByDuration(Tail(streaks), best)

RECURSIVE MinByDuration(_, _)
MinByDuration(streaks, best) ==
    IF streaks = <<>> THEN best
    ELSE IF calculate_streak_duration(Head(streaks)) < calculate_streak_duration(best)
         THEN MinByDuration(Tail(streaks), Head(streaks))
         ELSE MinByDuration(Tail(streaks), best)

\* Habit.find_longest_streak
find_longest_streak(h, partial) ==
    LET r == track_streaks(h, partial)
    IN  IF r.err # None THEN [err |-> r.err, val |-> 0]
        ELSE LET longest_streak ==
                     IF r.val = <<>> THEN <<>>
                     ELSE MaxByDuration(Tail(r.val), Head(r.val))
             IN  [err |-> None, val |-> calculate_streak_duration(longest_streak)]

\* Habit.find_shortest_streak
find_shortest_streak(h, partial) ==
    LET r == track_streaks(h, partial)
    IN  IF r.err # None THEN [err |-> r.err, val |-> 0]
        ELSE LET shortest_streak ==
                     IF r.val = <<>> THEN <<>>
                     ELSE MinByDuration(Tail(r.val), Head(r.val))
             IN  [err |-> None, val |-> calculate_streak_duration(shortest_streak)]

(* ------------------------ recording completions ------------------------ *)
\* any(now.date() == completion.date() for completion in self.completions):
\* the generator stops at the first match, and raises AttributeError at the
\* first datetime.date it reaches before one
RECURSIVE AnyToday(_, _)
AnyToday(completions, now) ==
    IF completions = <<>> THEN "False"
    ELSE IF ~HasDateMethod(Head(completions)) THEN "AttributeError"
    ELSE IF Head(completions).day = now.day THEN "True"
    ELSE AnyToday(Tail(completions), now)

\* Habit.complete
complete(h, now) ==
    LET found == AnyToday(h.completions, now)
    IN  IF found = "AttributeError"
        THEN [err |-> "AttributeError", completions |-> h.completions]
        ELSE IF found = "True"
        THEN [err |-> None, completions |-> h.completions]
        ELSE [err |-> None, completions |-> Append(h.completions, now)]

\* the loop of generate_example_data: for i in range(n), append the date
\* reference_date + i * step when random.choice picked True for i
RECURSIVE ExampleLoop(_, _, _, _, _)
ExampleLoop(completions, i, n, step, picks) ==
    IF i >= n THEN completions
    ELSE ExampleLoop(IF i \in picks THEN Append(completions, Date(i * step))
                     ELSE completions,
                     i + 1, n, step, picks)

\* Habit.generate_example_data; picks are the i for which random.choice
\* returned True
generate_example_data(h, picks) ==
    IF h.period = "daily" THEN ExampleLoop(h.completions, 0, ExampleDays, 1, picks)
    ELSE IF h.period = "weekly"
    THEN ExampleLoop(h.completions, 0, ExampleWeeks, DaysPerWeek, picks)
    ELSE h.completions

\* the loop of get_streak: dates is the sorted copy, gap the timedelta in
\* days; a timedelta comparison, exact to the tick
RECURSIVE StreakLoop(_, _, _, _, _)
StreakLoop(dates, i, streak, max_streak, gap) ==
    IF i > Len(dates)
    THEN IF streak > max_streak THEN streak ELSE max_streak
    ELSE IF Ticks(dates[i]) - Ticks(dates[i - 1]) <= gap * TicksPerDay
         THEN StreakLoop(dates, i + 1, streak + 1, max_streak, gap)
         ELSE StreakLoop(dates, i + 1, 0,
                         IF streak > max_streak THEN streak ELSE max_streak, gap)

\* Habit.get_streak: sorts a copy of the completions; any period other than
\* daily takes the weekly gap
get_streak(h) ==
    IF SortRaises(h.completions)
    THEN [err |-> "TypeError", val |-> 0, completions |-> h.completions]
    ELSE [err |-> None,
          val |-> StreakLoop(SortAsc(h.completions), 2, 0, 0,
                             IF h.period = "daily" THEN DailyThreshold
                             ELSE WeeklyThreshold),
          completions |-> h.completions]

(* ----------------------------- persistence ----------------------------- *)
\* str(completion): "YYYY-MM-DD" for a date, "YYYY-MM-DD HH:MM:SS.ffffff"
\* for a datetime; a string is the sequence of its fields
Str(c) == IF c.kind = "date" THEN <<c.day>> ELSE <<c.day, c.tod>>

\* datetime.datetime.strptime(s, "%Y-%m-%d").date(): ValueError
\* ("unconverted data remains") when a time follows the date
StrptimeRaises(str) == Len(str) # 1
Strptime(str) == Date(str[1])

\* the habit_data dictionary of save_to_file
HabitData(h) ==
    [name |-> h.name, period |-> h.period,
     completions |-> [k \in 1..Len(h.completions) |-> Str(h.completions[k])]]

\* Habit.from_dict
from_dict(data) ==
    IF \E k \in 1..Len(data.completions) : StrptimeRaises(data.completions[k])
    THEN [err |-> "ValueError", habit |-> Habit(data.name, data.period)]
    ELSE [err |-> None,
          habit |-> [name |-> data.name, period |-> data.period,
                     completions |-> [k \in 1..Len(data.completions) |->
                                          Strptime(data.completions[k])]]]

\* HabitTracker.save_to_file: the content written
save_to_file(hs) == [k \in 1..Len(hs) |-> HabitData(hs[k])]

\* HabitTracker.load_from_file on an existing file: habits are appended one
\* by one until from_dict raises
RECURSIVE load_from_file(_, _)
load_from_file(hs, data) ==
    IF data = <<>> THEN [err |-> None, habits |-> hs]
    ELSE LET r == from_dict(Head(data))
         IN  IF r.err # None THEN [err |-> r.err, habits |-> hs]
             ELSE load_from_file(Append(hs, r.habit), Tail(data))

(* ------------------------------- ranking ------------------------------- *)
\* sum((streak[-1] - streak[0]).days + 1 for streak in streaks)
RECURSIVE TotalDays(_)
TotalDays(streaks) ==
    IF streaks = <<>> THEN 0
    ELSE DeltaDays(Head(streaks)[1], Head(streaks)[Len(Head(streaks))]) + 1
         + TotalDays(Tail(streaks))

\* a comparison of the day totals instead of the averages
LessTotal(x, y) == x.num < y.num

\* a / b < c / d for positive b and d
Less(x, y) == x.num * y.den < y.num * x.den

\* float('inf') and float('-inf'), the initial lowest and highest average
Infinite == [inf |-> TRUE, num |-> 0, den |-> 1]

\* the loop of find_struggling_habit over self.habits
RECURSIVE StrugglingLoop(_, _, _, _, _, _, _)
StrugglingLoop(hs, i, lowest, highest, struggling_habit, best_habit, partial) ==
    IF i > Len(hs)
    THEN [err |-> None, habits |-> hs,
          struggling |-> struggling_habit, best |-> best_habit]
    ELSE IF Len(hs[i].completions) > 0
    THEN LET r == track_streaks(hs[i], partial)
             hs2 == [hs EXCEPT ![i].completions = r.completions]
         IN  IF r.err # None
             THEN [err |-> r.err, habits |-> hs2, struggling |-> None, best |-> None]
             ELSE IF Len(r.val) > 0
             THEN LET avg == [inf |-> FALSE, num |-> TotalDays(r.val),
                              den |-> Len(r.val)]
                      lower == lowest.inf \/ Less(avg, lowest)
                      higher == highest.inf \/ Less(highest, avg)
                  IN  StrugglingLoop(hs2, i + 1,
                                     IF lower THEN avg ELSE lowest,
                                     IF higher THEN avg ELSE highest,
                                     IF lower THEN hs[i].name ELSE struggling_habit,
                                     IF higher THEN hs[i].name ELSE best_habit,
                                     partial)
             ELSE StrugglingLoop(hs2, i + 1, lowest, highest,
                                 struggling_habit, best_habit, partial)
    ELSE StrugglingLoop(hs, i + 1, lowest, highest,
                        struggling_habit, best_habit, partial)

\* "if struggling_habit:" / "if best_habit:": None and the empty name are
\* both reported as "No ... habits found."
Truthy(name) == IF name = "" THEN None ELSE name

\* HabitTracker.find_struggling_habit: the two names it reports
find_struggling_habit(hs, partial) ==
    LET r == StrugglingLoop(hs, 1, Infinite, Infinite, None, None, partial)
    IN  [err |-> r.err, habits |-> r.habits,
         struggling |-> Truthy(r.struggling), best |-> Truthy(r.best)]

(* ------------------------------ operations ----------------------------- *)
\* time passes
Tick ==
    /\ \/ clock.tod + 1 < TicksPerDay /\ clock' = [clock EXCEPT !.tod = @ + 1]
       \/ clock.tod + 1 = TicksPerDay /\ clock.day < MaxDay
          /\ clock' = [day |-> clock.day + 1, tod |-> 0]
    /\ UNCHANGED <<habits, result>>

\* HabitTracker.add_custom_habit(habit), the habit being a new Habit on
\* which generate_example_data was called (no pick: an empty habit)
AddCustomHabit(name, period, picks) ==
    /\ Len(habits) < MaxHabits
    /\ LET habit == Habit(name, period)
       IN  habits' = Append(habits,
               [habit EXCEPT !.completions = generate_example_data(habit, picks)])
    /\ result' = Outcome("add_custom_habit", None, <<>>)
    /\ UNCHANGED clock

\* HabitTracker.remove_habit
RemoveHabit(name) ==
    /\ habits' = SelectSeq(habits, LAMBDA h : h.name # name)
    /\ result' = Outcome("remove_habit", None, <<>>)
    /\ UNCHANGED clock

\* Habit.complete on the i-th habit
Complete(i) ==
    LET r == complete(habits[i], Now)
    IN  /\ Len(habits[i].completions) < MaxCompletions
        /\ habits' = [habits EXCEPT ![i].completions = r.completions]
        /\ result' = Outcome("complete", r.err, <<>>)
        /\ UNCHANGED clock

\* Habit.generate_example_data on the i-th habit
GenerateExampleData(i, picks) ==
    /\ Len(habits[i].completions) < MaxCompletions
    /\ habits' = [habits EXCEPT
                    ![i].completions = generate_example_data(habits[i], picks)]
    /\ result' = Outcome("generate_example_data", None, <<>>)
    /\ UNCHANGED clock

\* Habit.track_streaks on the i-th habit
TrackStreaks(i, partial) ==
    LET r == track_streaks(habits[i], partial)
    IN  /\ habits' = [habits EXCEPT ![i].completions = r.completions]
        /\ result' = Outcome("track_streaks", r.err, r.val)
        /\ UNCHANGED clock

\* Habit.calculate_average_streak_duration on the i-th habit
AverageStreakDuration(i, partial) ==
    LET r == calculate_average_streak_duration(habits[i], partial)
    IN  /\ habits' = [habits EXCEPT
                        ![i].completions = track_streaks(habits[i], partial).completions]
        /\ result' = Outcome("calculate_average_streak_duration", r.err, <<r.num, r.den>>)
        /\ UNCHANGED clock

\* Habit.find_longest_streak on the i-th habit
LongestStreak(i, partial) ==
    LET r == find_longest_streak(habits[i], partial)
    IN  /\ habits' = [habits EXCEPT
                        ![i].completions = track_streaks(habits[i], partial).completions]
        /\ result' = Outcome("find_longest_streak", r.err, <<r.val>>)
        /\ UNCHANGED clock

\* Habit.find_shortest_streak on the i-th habit
ShortestStreak(i, partial) ==
    LET r == find_shortest_streak(habits[i], partial)
    IN  /\ habits' = [habits EXCEPT
                        ![i].completions = track_streaks(habits[i], partial).completions]
        /\ result' = Outcome("find_shortest_streak", r.err, <<r.val>>)
        /\ UNCHANGED clock

\* Habit.get_streak on the i-th habit
GetStreak(i) ==
    LET r == get_streak(habits[i])
    IN  /\ habits' = [habits EXCEPT ![i].completions = r.completions]
        /\ result' = Outcome("get_streak", r.err, <<r.val>>)
        /\ UNCHANGED clock

\* HabitTracker.find_struggling_habit
FindStrugglingHabit(partial) ==
    LET r == find_struggling_habit(habits, partial)
    IN  /\ habits' = r.habits
        /\ result' = Outcome("find_struggling_habit", r.err, <<r.struggling, r.best>>)
        /\ UNCHANGED clock

\* main exits through save_to_file, and the next run of main loads the file
\* into a fresh HabitTracker with load_from_file
SaveAndReload ==
    LET r == load_from_file(<<>>, save_to_file(habits))
    IN  /\ habits' = r.habits
        /\ result' = Outcome("load_from_file", r.err, <<>>)
        /\ UNCHANGED clock

(* --------------- one habit: recording, analysis, persistence ----------- *)
\* a tracker holding one new habit, its period not validated (Habit.__init__
\* and add_custom_habit accept any)
Init ==
    /\ \E name \in Names, period \in Periods : habits = <<Habit(name, period)>>
    /\ clock = [day |-> 0, tod |-> 0]
    /\ result = Outcome("init", None, <<>>)

Next ==
    \/ Tick
    \/ \E i \in 1..Len(habits) : Complete(i)
    \/ \E i \in 1..Len(habits) : \E picks \in ExamplePicks(habits[i].period) :
           GenerateExampleData(i, picks)
    \/ \E i \in 1..Len(habits), partial \in BOOLEAN : TrackStreaks(i, partial)
    \/ \E i \in 1..Len(habits), partial \in BOOLEAN : AverageStreakDuration(i, partial)
    \/ \E i \in 1..Len(habits), partial \in BOOLEAN : LongestStreak(i, partial)
    \/ \E i \in 1..Len(habits), partial \in BOOLEAN : ShortestStreak(i, partial)
    \/ \E i \in 1..Len(habits) : GetStreak(i)
    \/ SaveAndReload

Spec == Init /\ [][Next]_vars

(* ------------------------ the fixture of the tests --------------------- *)
\* the clock reading n ticks after c
AddTicks(c, n) ==
    [day |-> c.day + (c.tod + n) \div TicksPerDay,
     tod |-> (c.tod + n) % TicksPerDay]

\* the ticks that pass before each of the FixtureDays calls of now(): the
\* clock never runs backwards
Drifts ==
    {d \in [0 .. FixtureDays - 1 -> 0 .. MaxDrift] :
        /\ d[0] = 0
        /\ \A k \in 1 .. FixtureDays - 1 : d[k - 1] <= d[k]}

\* unit_test.py: self.habit.completions =
\*     [datetime.now() - timedelta(days=i) for i in range(6)]
AssignFixture(drift) ==
    /\ AddTicks(clock, drift[FixtureDays - 1]).day <= MaxDay
    /\ habits' = [habits EXCEPT ![1].completions =
                    [k \in 1 .. FixtureDays |->
                        LET now == AddTicks(clock, drift[k - 1])
                        IN  DateTime(now.day - (k - 1), now.tod)]]
    /\ clock' = AddTicks(clock, drift[FixtureDays - 1])
    /\ result' = Outcome("fixture", None, <<>>)

\* TestHabit.setUp
InitFixture ==
    /\ habits = <<Habit("Test Habit", "daily")>>
    /\ clock = [day |-> 0, tod |-> 0]
    /\ result = Outcome("init", None, <<>>)

NextFixture ==
    \/ Tick
    \/ \E drift \in Drifts : AssignFixture(drift)
    \/ \E partial \in BOOLEAN : AverageStreakDuration(1, partial)
    \/ \E partial \in BOOLEAN : LongestStreak(1, partial)
    \/ \E partial \in BOOLEAN : ShortestStreak(1, partial)

SpecFixture == InitFixture /\ [][NextFixture]_vars

(* ------------------- the tracker: several habits, ranking -------------- *)
InitTracker ==
    /\ habits = <<>>
    /\ clock = [day |-> 0, tod |-> 0]
    /\ result = Outcome("init", None, <<>>)

NextTracker ==
    \/ \E name \in Names, period \in Periods : \E picks \in ExamplePicks(period) :
           AddCustomHabit(name, period, picks)
    \/ \E name \in Names : RemoveHabit(name)
    \/ \E i \in 1..Len(habits) : Complete(i)
    \/ \E partial \in BOOLEAN : FindStrugglingHabit(partial)

SpecTracker == InitTracker /\ [][NextTracker]_vars

(* ========================= properties of the code ====================== *)
\* the calendar day of a completion: its time of day discarded
CalendarDay(c) == c.day

ValidPeriod(h) == h.period \in {"daily", "weekly"}

Threshold(h) == IF h.period = "daily" THEN DailyThreshold ELSE WeeklyThreshold

RECURSIVE Flatten(_)
Flatten(streaks) ==
    IF streaks = <<>> THEN <<>> ELSE Head(streaks) \o Flatten(Tail(streaks))

DaysOf(s) == [k \in 1..Len(s) |-> CalendarDay(s[k])]

\* the elements of a finite set of integers in ascending order
RECURSIVE Ascending(_)
Ascending(S) ==
    IF S = {} THEN <<>>
    ELSE LET m == CHOOSE x \in S : \A y \in S : x <= y
         IN  <<m>> \o Ascending(S \ {m})

DaySet(h) == {CalendarDay(h.completions[k]) : k \in 1..Len(h.completions)}

\* C1: for every habit with period daily or weekly and a non-empty
\* completion set, track_streaks returns streaks, none of them empty, whose
\* concatenation is the ascending, de-duplicated sequence of the completion
\* dates.
C1_StreaksPartitionCompletions ==
    \A i \in 1..Len(habits) :
        (ValidPeriod(habits[i]) /\ habits[i].completions # <<>>) =>
            LET r == track_streaks(habits[i], FALSE)
            IN  /\ r.err = None
                /\ \A k \in 1..Len(r.val) : r.val[k] # <<>>
                /\ DaysOf(Flatten(r.val)) = Ascending(DaySet(habits[i]))

\* the number of the streak that holds the k-th completion in chronological
\* order
RECURSIVE StreakOf(_, _)
StreakOf(streaks, k) ==
    IF k <= Len(Head(streaks)) THEN 1
    ELSE 1 + StreakOf(Tail(streaks), k - Len(Head(streaks)))

\* C2: in the result of track_streaks, two chronologically adjacent
\* completions are in the same streak exactly when their calendar dates are
\* at most the threshold apart (1 day for daily, 7 days for weekly), whatever
\* their times of day.
C2_SameStreakIffWithinThreshold ==
    \A i \in 1..Len(habits) :
        LET r == track_streaks(habits[i], FALSE)
            s == Flatten(r.val)
        IN  (ValidPeriod(habits[i]) /\ r.err = None) =>
                \A k \in 1..(Len(s) - 1) :
                    (StreakOf(r.val, k) = StreakOf(r.val, k + 1))
                        <=> (CalendarDay(s[k + 1]) - CalendarDay(s[k])
                                <= Threshold(habits[i]))

\* C3: on every reachable habit complete() raises no error, appends exactly
\* one record for the current day when the habit has no record for that
\* calendar day, and otherwise leaves the completions unchanged.
C3_CompleteIdempotentPerDay ==
    \A i \in 1..Len(habits) :
        LET r == complete(habits[i], Now)
        IN  /\ r.err = None
            /\ IF CalendarDay(Now) \in DaySet(habits[i])
               THEN r.completions = habits[i].completions
               ELSE r.completions = Append(habits[i].completions, Now)

\* C4: saving the reachable habits with save_to_file and loading the file
\* into a fresh tracker succeeds and reproduces every habit's name, period
\* and set of completion calendar dates.
C4_SaveLoadRoundTrip ==
    LET r == load_from_file(<<>>, save_to_file(habits))
    IN  /\ r.err = None
        /\ Len(r.habits) = Len(habits)
        /\ \A i \in 1..Len(habits) :
            /\ r.habits[i].name = habits[i].name
            /\ r.habits[i].period = habits[i].period
            /\ DaySet(r.habits[i]) = DaySet(habits[i])

\* C5: every streak returned by track_streaks has a duration of at least 1,
\* equal to its inclusive calendar-day span: last date - first date + 1.
C5_DurationIsCalendarSpan ==
    \A i \in 1..Len(habits) :
        LET r == track_streaks(habits[i], FALSE)
        IN  \A k \in 1..Len(r.val) :
                LET streak == r.val[k]
                IN  /\ calculate_streak_duration(streak) >= 1
                    /\ calculate_streak_duration(streak)
                         = CalendarDay(streak[Len(streak)]) - CalendarDay(streak[1]) + 1

\* the completions are six timestamps, one per day on six consecutive days,
\* the latest first (now - i days for i = 0..5)
ConsecutiveSix(h) ==
    /\ Len(h.completions) = FixtureDays
    /\ \A k \in 1..FixtureDays :
        /\ h.completions[k].kind = "datetime"
        /\ CalendarDay(h.completions[k]) = CalendarDay(h.completions[1]) - (k - 1)

\* the three metrics of a habit all return n
MetricsAre(h, n) ==
    /\ calculate_average_streak_duration(h, FALSE).err = None
    /\ calculate_average_streak_duration(h, FALSE).num
         = n * calculate_average_streak_duration(h, FALSE).den
    /\ find_longest_streak(h, FALSE) = [err |-> None, val |-> n]
    /\ find_shortest_streak(h, FALSE) = [err |-> None, val |-> n]

AnalysisOps == {"track_streaks", "calculate_average_streak_duration",
                "find_longest_streak", "find_shortest_streak"}

\* C7: for every habit whose period is neither daily nor weekly, whatever
\* its completions, track_streaks raises ValueError, and so do
\* calculate_average_streak_duration, find_longest_streak and
\* find_shortest_streak instead of returning a result.
C7_InvalidPeriodRaises ==
    \A i \in 1..Len(habits) :
        ~ValidPeriod(habits[i]) =>
            /\ \A partial \in BOOLEAN :
                /\ track_streaks(habits[i], partial).err = "ValueError"
                /\ calculate_average_streak_duration(habits[i], partial).err = "ValueError"
                /\ find_longest_streak(habits[i], partial).err = "ValueError"
                /\ find_shortest_streak(habits[i], partial).err = "ValueError"
            /\ (result.op \in AnalysisOps => result.err = "ValueError")

C7_Witness ==
    /\ result.op = "calculate_average_streak_duration"
    /\ result.err = "ValueError"
    /\ habits[1].completions # <<>>

\* the habits that take part in the ranking, and their averages
Ranked == {i \in 1..Len(habits) : habits[i].completions # <<>>}
Averages == [i \in Ranked |-> calculate_average_streak_duration(habits[i], FALSE)]
RatLess(x, y) == x.num * y.den < y.num * x.den

\* the first habit in tracker order among those of minimal (maximal) average
FirstLowest(avg) ==
    CHOOSE i \in Ranked : \A j \in Ranked :
        /\ ~RatLess(avg[j], avg[i])
        /\ (j < i => RatLess(avg[i], avg[j]))
FirstHighest(avg) ==
    CHOOSE i \in Ranked : \A j \in Ranked :
        /\ ~RatLess(avg[i], avg[j])
        /\ (j < i => RatLess(avg[j], avg[i]))

Reported(name) == IF name = "" THEN None ELSE name

C9_NoCompletionsGiveZero ==
    \A i \in 1..Len(habits) :
        (ValidPeriod(habits[i]) /\ habits[i].completions = <<>>) =>
            /\ \A partial \in BOOLEAN :
                /\ track_streaks(habits[i], partial).err = None
                /\ track_streaks(habits[i], partial).val = <<>>
                /\ calculate_average_streak_duration(habits[i], partial)
                     = [err |-> None, num |-> 0, den |-> 1]
                /\ find_longest_streak(habits[i], partial) = [err |-> None, val |-> 0]
                /\ find_shortest_streak(habits[i], partial) = [err |-> None, val |-> 0]
            /\ (result.op = "track_streaks" => result = Outcome(result.op, None, <<>>))
            /\ (result.op = "calculate_average_streak_duration"
                    => result = Outcome(result.op, None, <<0, 1>>))
            /\ (result.op \in {"find_longest_streak", "find_shortest_streak"}
                    => result = Outcome(result.op, None, <<0>>))

C9_Witness ==
    /\ result = Outcome("find_shortest_streak", None, <<0>>)
    /\ ValidPeriod(habits[1])
    /\ habits[1].completions = <<>>

\* C10: after any sequence of complete, generate_example_data and from_dict
\* (load) operations, no two completions of a habit fall on the same
\* calendar day.
C10_OneRecordPerDay ==
    \A i \in 1..Len(habits) :
        \A j, k \in 1..Len(habits[i].completions) :
            j # k => CalendarDay(habits[i].completions[j])
                        # CalendarDay(habits[i].completions[k])

\* a step of one of the streak analysis operations on some habit
AnalysisStep ==
    \/ \E i \in 1..Len(habits), partial \in BOOLEAN : TrackStreaks(i, partial)
    \/ \E i \in 1..Len(habits), partial \in BOOLEAN : AverageStreakDuration(i, partial)
    \/ \E i \in 1..Len(habits), partial \in BOOLEAN : LongestStreak(i, partial)
    \/ \E i \in 1..Len(habits), partial \in BOOLEAN : ShortestStreak(i, partial)
    \/ \E i \in 1..Len(habits) : GetStreak(i)

\* C11: for both period modes, a call of track_streaks, of the average,
\* longest or shortest metric, or of get_streak leaves every habit's stored
\* completion list as it was, the order of its elements included.
C11_AnalysisLeavesCompletions ==
    [][AnalysisStep => habits' = habits]_vars

====
